---- MODULE Spec2Model ----
(***************************************************************************)
(* A model of the raypeat-bookshelf repository: the filename parser and    *)
(* catalog builder of scripts/generate-book-list.mjs, the quiz session     *)
(* flow of src/app/quiz, and the logging endpoint src/app/api/log-quiz.    *)
(*                                                                         *)
(* JavaScript strings are sequences of one-character strings.  An optional *)
(* value (undefined, NaN, null) is the empty sequence, a present value v   *)
(* is <<v>>.                                                               *)
(***************************************************************************)
EXTENDS Integers, Sequences, FiniteSets, TLC

VARIABLES
    filenameWithoutExt,  \* parseFilename: its argument
    parsed,              \* parseFilename: its return value, <<>> before the call
    warned,              \* parseFilename: console.warn was called (fallback)
    coversDir,           \* public/covers: <<listing>>, or <<>> when the directory is missing
    mappingFile,         \* pdf-url-mappings.json: kind "missing", "corrupt" or "object", and its content
    pdfUrlMap,           \* generateBookData: the loaded mapping
    books,               \* generateBookData: the entries to be written
    outputFile,          \* src/data/books.json: <<manifest>> once written
    exitCode,            \* process exit status of the build script, <<>> while it runs
    bpc,                 \* generateBookData: "load", "scan", "write", "done"
    route,               \* the page shown: "select" (/quiz), "quiz" (/quiz/<difficulty>), "results"
    pageDifficulty,      \* QuizDifficultyPage: params.difficulty
    isValidDifficulty,   \* QuizDifficultyPage: state
    answers,             \* QuizDifficultyPage: state, question id -> option id
    isSubmitting,        \* QuizDifficultyPage: state
    sent,                \* history: the logging requests sent by the quiz page on screen
    inflight,            \* calls of handleSubmit that await the logging request; live: made by the page on screen
    lastLog,             \* what handleSubmit last logged about the logging request
    fetches,             \* number of logging requests sent
    pushes,              \* number of router.push('/quiz/results')
    alerts,              \* number of alert(..) calls
    storage,             \* sessionStorage 'quizResults': <<text>> or <<>>
    storedResults,       \* ResultsPage effect: what getItem returned
    results,             \* ResultsPage: state, <<value>> or <<>> for null
    isLoading,           \* ResultsPage: state
    requestBody,         \* POST /api/log-quiz: the text of the request body
    lpc,                 \* POST: "start", "insert" (awaiting the insert), "done"
    dbEntry,             \* POST: <<dbEntry>> once prepared
    dbError,             \* POST: the error of the insert: "unset", "null" or "error"
    dbRows,              \* the table quiz_submissions
    inserts,             \* POST: number of calls of insert
    responseStatus,      \* POST: the status of the response, 0 before it is sent
    initialBooks,        \* BookGridClient: the manifest handed to the grid
    sortState,           \* BookGridClient: state
    searchQuery,         \* BookGridClient: state
    displayedBooks,      \* BookGridClient: the memo displayedBooks
    hasToken,            \* fetchLfsPdfs: whether GITHUB_PAT is set
    lfsCoversDir,        \* fetchLfsPdfs: the listing of public/covers, None when missing
    coverFilenames,      \* fetchLfsPdfs: what readdir returned
    cursor,              \* fetchLfsPdfs: the position of the for loop in coverFilenames
    localPdfs,           \* fetchLfsPdfs: the file names in public/books
    requested,           \* fetchLfsPdfs: the paths requested from the API, in order
    successCount,        \* fetchLfsPdfs: local
    failCount,           \* fetchLfsPdfs: local
    skippedCount,        \* fetchLfsPdfs: local
    fetchExit,           \* fetchLfsPdfs: the exit status, None while running
    fpc                  \* fetchLfsPdfs: "start", "loop", "done"

parseVars == <<filenameWithoutExt, parsed, warned>>
buildVars == <<coversDir, mappingFile, pdfUrlMap, books, outputFile, exitCode, bpc>>
quizPageVars == <<pageDifficulty, isValidDifficulty, answers, isSubmitting, sent>>
submitVars == <<inflight, fetches, lastLog, pushes, alerts>>
resultsPageVars == <<storedResults, results, isLoading>>
quizVars == <<route, quizPageVars, submitVars, storage, resultsPageVars>>
logVars == <<requestBody, lpc, dbEntry, dbError, dbRows, inserts, responseStatus>>
gridVars == <<initialBooks, sortState, searchQuery, displayedBooks>>
fetchVars == <<hasToken, lfsCoversDir, coverFilenames, cursor, localPdfs, requested,
               successCount, failCount, skippedCount, fetchExit, fpc>>
vars == <<parseVars, buildVars, quizVars, logVars, gridVars, fetchVars>>

----------------------------------------------------------------------------
(* Bounds *)

\* Largest number that a stored or posted document holds.
MaxNumber == 3

\* Number of entries of a manifest handed to the grid.
MaxBooks == 3

\* Number of tokens that follow the year token in a generated filename.
MaxToks == 6

\* Number of files in the covers directory.
MaxCovers == 3

\* Number of submissions accepted in one session.
MaxSubmits == 2

----------------------------------------------------------------------------
(* JavaScript string primitives *)

None == <<>>
Some(v) == <<v>>

Digits == {"0", "1", "2", "3", "4", "5", "6", "7", "8", "9"}

DigitVal(c) ==
    CASE c = "0" -> 0 [] c = "1" -> 1 [] c = "2" -> 2 [] c = "3" -> 3
      [] c = "4" -> 4 [] c = "5" -> 5 [] c = "6" -> 6 [] c = "7" -> 7
      [] c = "8" -> 8 [] c = "9" -> 9

\* White space removed by String.prototype.trim and skipped by parseInt.
IsSpace(c) == c = " "

\* The delimiter of split(' - ') and join(' - ').
Delim == <<" ", "-", " ">>

\* s.startsWith(p, i) with a 1-based index.
StartsWithAt(s, p, i) ==
    /\ i + Len(p) - 1 <= Len(s)
    /\ \A k \in 1..Len(p) : s[i + k - 1] = p[k]

\* s.endsWith(p)
EndsWith(s, p) ==
    /\ Len(p) <= Len(s)
    /\ StartsWithAt(s, p, Len(s) - Len(p) + 1)

\* s.indexOf(p) as a 1-based index, 0 when p does not occur.
IndexOf(s, p) ==
    LET hits == {i \in 1..Len(s) : StartsWithAt(s, p, i)}
    IN  IF hits = {} THEN 0 ELSE CHOOSE i \in hits : \A j \in hits : i <= j

Contains(s, p) == IndexOf(s, p) # 0

\* s.trim()
RECURSIVE TrimStart(_)
TrimStart(s) ==
    IF s # <<>> /\ IsSpace(Head(s)) THEN TrimStart(Tail(s)) ELSE s

RECURSIVE TrimEnd(_)
TrimEnd(s) ==
    IF s # <<>> /\ IsSpace(s[Len(s)]) THEN TrimEnd(SubSeq(s, 1, Len(s) - 1)) ELSE s

Trim(s) == TrimEnd(TrimStart(s))

\* s.split(sep) for a non-empty separator: the pieces between the
\* non-overlapping occurrences of sep, scanned left to right.
RECURSIVE Split(_, _)
Split(s, sep) ==
    LET i == IndexOf(s, sep)
    IN  IF i = 0 THEN <<s>>
        ELSE <<SubSeq(s, 1, i - 1)>> \o Split(SubSeq(s, i + Len(sep), Len(s)), sep)

\* parts.join(sep)
RECURSIVE Join(_, _)
Join(ps, sep) ==
    IF ps = <<>> THEN <<>>
    ELSE IF Len(ps) = 1 THEN ps[1]
    ELSE ps[1] \o sep \o Join(Tail(ps), sep)

\* The value of the longest prefix of decimal digits of s, with accumulator acc.
RECURSIVE DigitPrefixVal(_, _)
DigitPrefixVal(s, acc) ==
    IF s # <<>> /\ Head(s) \in Digits
    THEN DigitPrefixVal(Tail(s), 10 * acc + DigitVal(Head(s)))
    ELSE acc

\* parseInt(s, 10): leading white space is skipped, one sign is accepted,
\* then the longest run of digits is read and whatever follows is ignored.
\* None is NaN.
ParseInt10(s) ==
    LET t    == TrimStart(s)
        neg  == t # <<>> /\ Head(t) = "-"
        body == IF t # <<>> /\ Head(t) \in {"-", "+"} THEN Tail(t) ELSE t
    IN  IF body = <<>> \/ Head(body) \notin Digits THEN None
        ELSE Some((IF neg THEN -1 ELSE 1) * DigitPrefixVal(body, 0))

\* s.replace(/[_-]/g, ' ')
ReplaceUnderscoreHyphen(s) ==
    [i \in 1..Len(s) |-> IF s[i] \in {"_", "-"} THEN " " ELSE s[i]]

----------------------------------------------------------------------------
(* scripts/generate-book-list.mjs: parseFilename *)

UnknownAuthor == <<"U", "n", "k", "n", "o", "w", "n", " ", "A", "u", "t", "h", "o", "r">>
Untitled == <<"U", "n", "t", "i", "t", "l", "e", "d">>

\* a || b on strings: the empty string is falsy.
OrElse(a, b) == IF a = <<>> THEN b ELSE a

\* Whether the year token is accepted: !isNaN(year) && yearStr.length === 4
YearAccepted(yearStr) == ParseInt10(yearStr) # None /\ Len(yearStr) = 4

\* Whether parseFilename returns from inside the if (the success path).
ParseSucceeds(name) ==
    LET parts == Split(name, Delim)
    IN  Len(parts) >= 3 /\ YearAccepted(Trim(parts[1]))

\* parseFilename with the title taken from the third segment alone.
parseFilename_ThirdSegmentOnly(name) ==
    LET parts == Split(name, Delim)
    IN  IF ParseSucceeds(name)
        THEN [year   |-> ParseInt10(Trim(parts[1])),
              author |-> OrElse(Trim(parts[2]), UnknownAuthor),
              title  |-> OrElse(Trim(parts[3]), Untitled)]
        ELSE [year   |-> None,
              author |-> UnknownAuthor,
              title  |-> OrElse(ReplaceUnderscoreHyphen(name), Untitled)]

\* parseFilename with the title taken from the last segment alone.
parseFilename_LastSegmentOnly(name) ==
    LET parts == Split(name, Delim)
    IN  IF ParseSucceeds(name)
        THEN [year   |-> ParseInt10(Trim(parts[1])),
              author |-> OrElse(Trim(parts[2]), UnknownAuthor),
              title  |-> OrElse(Trim(parts[Len(parts)]), Untitled)]
        ELSE [year   |-> None,
              author |-> UnknownAuthor,
              title  |-> OrElse(ReplaceUnderscoreHyphen(name), Untitled)]

\* parseFilename without the defaults for an empty author or title.
parseFilename_NoDefaults(name) ==
    LET parts == Split(name, Delim)
    IN  IF ParseSucceeds(name)
        THEN [year   |-> ParseInt10(Trim(parts[1])),
              author |-> Trim(parts[2]),
              title  |-> Trim(Join(SubSeq(parts, 3, Len(parts)), Delim))]
        ELSE [year   |-> None,
              author |-> UnknownAuthor,
              title  |-> ReplaceUnderscoreHyphen(name)]

parseFilename(name) ==
    LET parts == Split(name, Delim)
    IN  IF ParseSucceeds(name)
        THEN [year   |-> ParseInt10(Trim(parts[1])),
              author |-> OrElse(Trim(parts[2]), UnknownAuthor),
              title  |-> OrElse(Trim(Join(SubSeq(parts, 3, Len(parts)), Delim)), Untitled)]
        ELSE [year   |-> None,
              author |-> UnknownAuthor,
              title  |-> OrElse(ReplaceUnderscoreHyphen(name), Untitled)]

----------------------------------------------------------------------------
(* Filenames handed to parseFilename *)

\* The first token of a generated name: nothing, a four-digit year (with
\* leading zeros), four characters that only start with digits, three
\* digits.
YearToks ==
    { <<>>,
      <<"0", "0", "4", "2">>,
      <<"2", "0", "a", "1">>,
      <<"2", "0", "1">> }

\* The tokens that follow it.
NameToks == { Delim, <<"a">>, <<" ">>, <<"-">>, <<"_">> }

\* The names of at most n tokens after the first.
RECURSIVE Filenames(_)
Filenames(n) ==
    IF n = 0 THEN YearToks
    ELSE LET shorter == Filenames(n - 1)
         IN  shorter \cup { f \o t : f \in shorter, t \in NameToks }

----------------------------------------------------------------------------
(* scripts/generate-book-list.mjs: generateBookData *)

\* A value read from the mapping: k is the JavaScript type ("undefined" for
\* a key that is absent), s the characters of a string value.
Undefined == [k |-> "undefined", s |-> <<>>]
Str(s) == [k |-> "string", s |-> s]
Num == [k |-> "number", s |-> <<>>]   \* a non-zero number

\* !v
Falsy(v) == v.k = "undefined" \/ (v.k = "string" /\ v.s = <<>>)

\* c.toLowerCase() on the characters that occur in the file names.
Lower(c) ==
    CASE c = "J" -> "j" [] c = "P" -> "p" [] c = "G" -> "g" [] c = "N" -> "n"
      [] c = "E" -> "e" [] c = "W" -> "w" [] c = "B" -> "b" [] OTHER -> c

ToLowerCase(s) == [i \in 1..Len(s) |-> Lower(s[i])]

possibleCoverExtensions ==
    { <<".", "j", "p", "g">>, <<".", "j", "p", "e", "g">>,
      <<".", "p", "n", "g">>, <<".", "w", "e", "b", "p">> }

\* A filter that compares the name as it is written.
IsCover_CaseSensitive(filename) ==
    \E ext \in possibleCoverExtensions : EndsWith(filename, ext)

\* The filter of the directory listing.
IsCover(filename) ==
    \E ext \in possibleCoverExtensions : EndsWith(ToLowerCase(filename), ext)

\* path.extname: from the last "." to the end; "" when there is none or
\* when the only "." is the first character.
ExtName(filename) ==
    LET dots == {i \in 1..Len(filename) : filename[i] = "."}
        last == CHOOSE i \in dots : \A j \in dots : j <= i
    IN  IF dots = {} \/ last = 1 THEN <<>>
        ELSE SubSeq(filename, last, Len(filename))

\* coverFilename.replace(new RegExp(`\\${extension}$`, 'i'), ''): the
\* extension is cut from the end; with an empty extension the pattern is
\* /\$/i and the first "$" of the name is removed.
BaseName(coverFilename) ==
    LET extension == ExtName(coverFilename)
        dollar    == IndexOf(coverFilename, <<"$">>)
    IN  IF extension = <<>>
        THEN IF dollar = 0 THEN coverFilename
             ELSE SubSeq(coverFilename, 1, dollar - 1)
                  \o SubSeq(coverFilename, dollar + 1, Len(coverFilename))
        ELSE IF EndsWith(ToLowerCase(coverFilename), ToLowerCase(extension))
        THEN SubSeq(coverFilename, 1, Len(coverFilename) - Len(extension))
        ELSE coverFilename

\* encodeURIComponent on the characters that occur in the file names:
\* letters, digits, "-", "_" and "." are kept, a space becomes %20.
RECURSIVE EncodeURIComponent(_)
EncodeURIComponent(s) ==
    IF s = <<>> THEN <<>>
    ELSE (IF Head(s) = " " THEN <<"%", "2", "0">> ELSE <<Head(s)>>)
         \o EncodeURIComponent(Tail(s))

PUBLIC_COVERS_URL_PATH == <<"/", "c", "o", "v", "e", "r", "s">>

\* pdfUrlMap[parsed.title]
LookupPdfUrl(map, title) == IF title \in DOMAIN map THEN map[title] ELSE Undefined

\* The callback of .map throws: pdfUrl is truthy and has no trim method.
EntryThrows(map, coverFilename) ==
    LET pdfUrl == LookupPdfUrl(map, parseFilename(BaseName(coverFilename)).title)
    IN  ~Falsy(pdfUrl) /\ pdfUrl.k # "string"

\* The callback of .map returns null: !pdfUrl || pdfUrl.trim() === ""
EntrySkipped(map, coverFilename) ==
    LET pdfUrl == LookupPdfUrl(map, parseFilename(BaseName(coverFilename)).title)
    IN  Falsy(pdfUrl) \/ (pdfUrl.k = "string" /\ Trim(pdfUrl.s) = <<>>)

\* The object the callback of .map returns for a cover that is kept.
BookEntry(map, coverFilename) ==
    LET baseName == BaseName(coverFilename)
        p        == parseFilename(baseName)
    IN  [id            |-> baseName,
         title         |-> p.title,
         author        |-> p.author,
         year          |-> p.year,
         coverImageUrl |-> PUBLIC_COVERS_URL_PATH \o <<"/">> \o EncodeURIComponent(coverFilename),
         pdfUrl        |-> LookupPdfUrl(map, p.title)]

\* coverFilenames.filter(..).map(..) followed by the filter of the nulls,
\* in the order of the listing.
RECURSIVE BooksOf(_, _)
BooksOf(map, listing) ==
    IF listing = <<>> THEN <<>>
    ELSE (IF IsCover(Head(listing)) /\ ~EntrySkipped(map, Head(listing))
          THEN <<BookEntry(map, Head(listing))>> ELSE <<>>)
         \o BooksOf(map, Tail(listing))

\* Promise.all rejects when the callback threw for some cover.
ScanThrows(map, listing) ==
    \E i \in 1..Len(listing) : IsCover(listing[i]) /\ EntryThrows(map, listing[i])

----------------------------------------------------------------------------
(* The covers directory and the mapping file *)

Y2001 == <<"2", "0", "0", "1">>
TitleA == <<"a">>
TitleB == <<"b">>
TitleC == <<"c">>

\* Files that can be in public/covers, in the order readdir lists them:
\* two covers of one book in different formats and letter case, a name
\* outside the naming convention, a third book, and a file that is no image.
CoverFiles ==
    << Y2001 \o Delim \o <<"a">> \o Delim \o TitleA \o <<".", "j", "p", "g">>,
       Y2001 \o Delim \o <<"a">> \o Delim \o TitleA \o <<".", "P", "N", "G">>,
       TitleB \o <<".", "w", "e", "b", "p">>,
       Y2001 \o Delim \o <<"a">> \o Delim \o TitleC \o <<".", "j", "p", "e", "g">>,
       TitleA \o <<".", "t", "x", "t">> >>

\* The listings of at most MaxCovers files.
Listings ==
    { [i \in 1..Cardinality(S) |->
          CoverFiles[CHOOSE k \in S : Cardinality({j \in S : j < k}) = i - 1]]
      : S \in { T \in SUBSET (1..Len(CoverFiles)) : Cardinality(T) <= MaxCovers } }

MapTitles == {TitleA, TitleB, TitleC}

\* What the mapping can hold for a title: nothing, the empty string, a
\* blank string, a URL, a value that is no string.
MapValues == { Undefined, Str(<<>>), Str(<<" ">>), Str(<<"u">>), Num }

\* A mapping object keeps the keys whose value is present.
MapObjects ==
    { [t \in {u \in MapTitles : f[u] # Undefined} |-> f[t]] : f \in [MapTitles -> MapValues] }

EmptyMap == [t \in {} |-> Undefined]

MappingFiles ==
    { [kind |-> "missing", content |-> EmptyMap], [kind |-> "corrupt", content |-> EmptyMap] }
    \cup { [kind |-> "object", content |-> m] : m \in MapObjects }

----------------------------------------------------------------------------
(* JSON values and the texts that hold them *)

\* A JavaScript value: k is its kind ("undefined", "null", "number",
\* "string", "object", "array" for an array of strings, "numarray" for an
\* array with an element that is no string); n, s, m, l hold a number, a
\* string, the properties of an answers object, the elements of an array.
NoAnswers == <<>>
JUndefined == [k |-> "undefined", n |-> 0, s |-> "", m |-> NoAnswers, l |-> <<>>]
JNull == [k |-> "null", n |-> 0, s |-> "", m |-> NoAnswers, l |-> <<>>]
JNumber(n) == [k |-> "number", n |-> n, s |-> "", m |-> NoAnswers, l |-> <<>>]
JString(s) == [k |-> "string", n |-> 0, s |-> s, m |-> NoAnswers, l |-> <<>>]
JObject(m) == [k |-> "object", n |-> 0, s |-> "", m |-> m, l |-> <<>>]
JArray(l) == [k |-> "array", n |-> 0, s |-> "", m |-> NoAnswers, l |-> l]
JNumArray == [k |-> "numarray", n |-> 0, s |-> "", m |-> NoAnswers, l |-> <<>>]

\* typeof v
TypeOf(v) ==
    CASE v.k \in {"null", "object", "array", "numarray"} -> "object"
      [] OTHER -> v.k

\* Array.isArray(v)
IsArray(v) == v.k \in {"array", "numarray"}

\* !!v
Truthy(v) ==
    CASE v.k \in {"undefined", "null"} -> FALSE
      [] v.k = "number" -> v.n # 0
      [] v.k = "string" -> v.s # ""
      [] OTHER -> TRUE

\* ['easy', 'medium', 'hard'].includes(v)
IsDifficulty(v) == v.k = "string" /\ v.s \in {"easy", "medium", "hard"}

\* A parsed JSON document: t is the kind of the top-level value, the other
\* fields are the properties of an object that the program reads.
Doc(t, score, totalQuestions, userAnswers, difficulty, questionIds) ==
    [t |-> t, score |-> score, totalQuestions |-> totalQuestions,
     userAnswers |-> userAnswers, difficulty |-> difficulty, questionIds |-> questionIds]

\* A top-level value that is no object: null, a number, a string, an array.
Plain(t) == Doc(t, JUndefined, JUndefined, JUndefined, JUndefined, JUndefined)

\* A text: kind "json" holds the document it parses to, "garbage" is no
\* JSON, "empty" is the empty string.
JsonText(d) == [kind |-> "json", value |-> d]
GarbageText == [kind |-> "garbage", value |-> Plain("null")]
EmptyText == [kind |-> "empty", value |-> Plain("null")]

\* JSON.parse(text) throws a SyntaxError.
ParseThrows(text) == text.kind # "json"

\* JSON.parse(text) when it returns.
JsonParse(text) == text.value

\* Reading a property of a parsed document throws a TypeError.
PropertyThrows(d) == d.t = "null"

----------------------------------------------------------------------------
(* src/data/quiz-questions.json as the quiz pages read it *)

OptionIds == {"a", "b"}

Question(id, correctAnswerId) == [id |-> id, correctAnswerId |-> correctAnswerId]

\* The bank: ids are unique within a tier; "q1" is also an id of the hard
\* tier, with another correct answer.
quizData ==
    [easy   |-> <<Question("q1", "a"), Question("q2", "b")>>,
     medium |-> <<Question("m1", "b")>>,
     hard   |-> <<Question("q1", "b")>>]

\* The ids of all questions of the bank.
QuestionIds ==
    UNION { {quizData[t][i].id : i \in 1..Len(quizData[t])} : t \in DOMAIN quizData }

\* Object.keys(quizData)
TierKeys == DOMAIN quizData

\* The values of params.difficulty: the tiers and a name that is no tier.
UrlDifficulties == TierKeys \cup {"expert"}

----------------------------------------------------------------------------
(* src/app/quiz/[difficulty]/page.tsx: QuizDifficultyPage *)

\* currentQuestions
CurrentQuestions(valid, difficulty) ==
    IF ~valid THEN <<>> ELSE quizData[difficulty]

\* answers[q.id] && answers[q.id] === q.correctAnswerId
CountsAsCorrect_AnyAnswer(ans, q) == q.id \in DOMAIN ans

CountsAsCorrect(ans, q) ==
    q.id \in DOMAIN ans /\ ans[q.id] # "" /\ ans[q.id] = q.correctAnswerId

\* The forEach loop that computes score.
RECURSIVE Score(_, _)
Score(ans, qs) ==
    IF qs = <<>> THEN 0
    ELSE (IF CountsAsCorrect(ans, Head(qs)) THEN 1 ELSE 0) + Score(ans, Tail(qs))

\* resultData built from the answered questions alone.
ResultData_AnsweredOnly(ans, difficulty, qs) ==
    LET answered == SelectSeq(qs, LAMBDA q : q.id \in DOMAIN ans)
    IN  [score          |-> Score(ans, qs),
         totalQuestions |-> Len(answered),
         userAnswers    |-> ans,
         difficulty     |-> difficulty,
         questionIds    |-> [i \in 1..Len(answered) |-> answered[i].id]]

\* resultData of handleSubmit
ResultData(ans, difficulty, qs) ==
    [score          |-> Score(ans, qs),
     totalQuestions |-> Len(qs),
     userAnswers    |-> ans,
     difficulty     |-> difficulty,
     questionIds    |-> [i \in 1..Len(qs) |-> qs[i].id]]

\* JSON.stringify of a resultData that has no difficulty.
Stringify_WithoutDifficulty(r) ==
    JsonText(Doc("object", JNumber(r.score), JNumber(r.totalQuestions),
                 JObject(r.userAnswers), JUndefined, JArray(r.questionIds)))

\* JSON.stringify(resultData)
Stringify(r) ==
    JsonText(Doc("object", JNumber(r.score), JNumber(r.totalQuestions),
                 JObject(r.userAnswers), JString(r.difficulty), JArray(r.questionIds)))

\* { [questionId]: value }: the earlier answers are not spread.
WithAnswer_DropsOthers(prev, questionId, value) ==
    [x \in {questionId} |-> value]

\* { ...prevAnswers, [questionId]: value }
WithAnswer(prev, questionId, value) ==
    [x \in DOMAIN prev \cup {questionId} |-> IF x = questionId THEN value ELSE prev[x]]

\* The outcomes of the awaited fetch('/api/log-quiz'): a 2xx response,
\* another response, a rejected promise.
FetchOutcomes == {"ok", "non2xx", "rejected"}

\* The state of the quiz page and of the results page when they are not mounted.
QuizPageUnmounted ==
    /\ pageDifficulty = ""
    /\ isValidDifficulty = FALSE
    /\ answers = NoAnswers
    /\ isSubmitting = FALSE
    /\ sent = 0

\* The waiting calls of handleSubmit once their page is no longer on screen.
Stale(hs) == {[h EXCEPT !.live = FALSE] : h \in hs}

\* A mount of QuizDifficultyPage for /quiz/<d>: fresh component state.
MountQuizPage(d) ==
    /\ route' = "quiz"
    /\ pageDifficulty' = d
    /\ isValidDifficulty' = FALSE
    /\ answers' = NoAnswers
    /\ isSubmitting' = FALSE
    /\ sent' = 0

\* The component state is dropped when the page is left.
UnmountQuizPage ==
    /\ pageDifficulty' = ""
    /\ isValidDifficulty' = FALSE
    /\ answers' = NoAnswers
    /\ isSubmitting' = FALSE
    /\ sent' = 0

\* A mount of ResultsPage: fresh component state.
MountResultsPage ==
    /\ route' = "results"
    /\ storedResults' = None
    /\ results' = None
    /\ isLoading' = TRUE

\* src/app/quiz/page.tsx: handleDifficultySelect
handleDifficultySelect(d) ==
    /\ route = "select"
    /\ MountQuizPage(d)
    /\ UNCHANGED <<submitVars, storage, resultsPageVars>>
    /\ UNCHANGED <<parseVars, buildVars, logVars, gridVars, fetchVars>>

\* The address /quiz/<d> is opened in the browser: the document is loaded
\* anew, which ends the calls of handleSubmit still waiting.
OpenQuizUrl(d) ==
    /\ route = "select"
    /\ MountQuizPage(d)
    /\ inflight' = {}
    /\ UNCHANGED <<fetches, lastLog, pushes, alerts, storage, resultsPageVars>>
    /\ UNCHANGED <<parseVars, buildVars, logVars, gridVars, fetchVars>>

\* The effect that validates the difficulty of the URL.
ValidateDifficulty ==
    /\ route = "quiz"
    /\ isValidDifficulty # (pageDifficulty # "" /\ pageDifficulty \in TierKeys)
    /\ isValidDifficulty' = (pageDifficulty # "" /\ pageDifficulty \in TierKeys)
    /\ UNCHANGED <<route, pageDifficulty, answers, isSubmitting, sent>>
    /\ UNCHANGED <<submitVars, storage, resultsPageVars>>
    /\ UNCHANGED <<parseVars, buildVars, logVars, gridVars, fetchVars>>

handleAnswerChange(questionId, value) ==
    /\ route = "quiz"
    /\ \E i \in 1..Len(CurrentQuestions(isValidDifficulty, pageDifficulty)) :
          CurrentQuestions(isValidDifficulty, pageDifficulty)[i].id = questionId
    /\ answers' = WithAnswer(answers, questionId, value)
    /\ UNCHANGED <<route, pageDifficulty, isValidDifficulty, isSubmitting, sent>>
    /\ UNCHANGED <<submitVars, storage, resultsPageVars>>
    /\ UNCHANGED <<parseVars, buildVars, logVars, gridVars, fetchVars>>

\* handleSubmit up to its first await: the guard, setIsSubmitting(true),
\* the score, resultData and the fetch of /api/log-quiz.
handleSubmit ==
    /\ fetches < MaxSubmits
    /\ route = "quiz"
    /\ ~(Len(CurrentQuestions(isValidDifficulty, pageDifficulty)) = 0
         \/ ~isValidDifficulty \/ isSubmitting)
    /\ isSubmitting' = TRUE
    /\ sent' = sent + 1
    /\ inflight' = inflight \cup
          {[id   |-> fetches + 1,
            live |-> TRUE,
            data |-> ResultData(answers, pageDifficulty,
                                 CurrentQuestions(isValidDifficulty, pageDifficulty))]}
    /\ fetches' = fetches + 1
    /\ UNCHANGED <<route, pageDifficulty, isValidDifficulty, answers>>
    /\ UNCHANGED <<lastLog, pushes, alerts, storage, resultsPageVars>>
    /\ UNCHANGED <<parseVars, buildVars, logVars, gridVars, fetchVars>>

\* A handleSubmit that hands the result over only when the logging request
\* succeeded, and otherwise ends after logging the failure.
SubmitStoresAndNavigates_OnlyWhenLogged(h, outcome) ==
    /\ h \in inflight
    /\ lastLog' = outcome
    /\ IF outcome = "ok"
       THEN /\ inflight' = Stale(inflight \ {h})
            /\ storage' = Some(Stringify(h.data))
            /\ pushes' = pushes + 1
            /\ MountResultsPage
            /\ UnmountQuizPage
       ELSE /\ inflight' = inflight \ {h}
            /\ isSubmitting' = IF h.live THEN FALSE ELSE isSubmitting
            /\ UNCHANGED <<route, pageDifficulty, isValidDifficulty, answers, sent>>
            /\ UNCHANGED <<pushes, storage, resultsPageVars>>
    /\ UNCHANGED <<fetches, alerts>>
    /\ UNCHANGED <<parseVars, buildVars, logVars, gridVars, fetchVars>>

\* handleSubmit after the fetch has settled with some outcome, when
\* sessionStorage.setItem returns: the outcome is logged, the result is
\* stored and router.push('/quiz/results') leaves the quiz page.
SubmitStoresAndNavigates(h, outcome) ==
    /\ h \in inflight
    /\ inflight' = Stale(inflight \ {h})
    /\ lastLog' = outcome
    /\ storage' = Some(Stringify(h.data))
    /\ pushes' = pushes + 1
    /\ MountResultsPage
    /\ UnmountQuizPage
    /\ UNCHANGED <<fetches, alerts>>
    /\ UNCHANGED <<parseVars, buildVars, logVars, gridVars, fetchVars>>

\* A handleSubmit that alerts about the failed write and navigates anyway.
SubmitStorageFails_StillNavigates(h, outcome) ==
    /\ h \in inflight
    /\ inflight' = Stale(inflight \ {h})
    /\ lastLog' = outcome
    /\ alerts' = alerts + 1
    /\ pushes' = pushes + 1
    /\ MountResultsPage
    /\ UnmountQuizPage
    /\ UNCHANGED <<fetches, storage>>
    /\ UNCHANGED <<parseVars, buildVars, logVars, gridVars, fetchVars>>

\* handleSubmit after the fetch has settled with some outcome, when
\* sessionStorage.setItem throws: alert, and setIsSubmitting(false) on the
\* page that submitted if it is still mounted.
SubmitStorageFails(h, outcome) ==
    /\ h \in inflight
    /\ inflight' = inflight \ {h}
    /\ lastLog' = outcome
    /\ alerts' = alerts + 1
    /\ isSubmitting' = IF h.live THEN FALSE ELSE isSubmitting
    /\ UNCHANGED <<route, pageDifficulty, isValidDifficulty, answers, sent>>
    /\ UNCHANGED <<fetches, pushes, storage, resultsPageVars>>
    /\ UNCHANGED <<parseVars, buildVars, logVars, gridVars, fetchVars>>

\* The link "Change Difficulty" (href="/quiz") of the quiz page. A session
\* leaves a call of handleSubmit waiting behind only when no call left behind
\* earlier is still waiting.
ChangeDifficulty ==
    /\ route = "quiz"
    /\ isSubmitting => \A h \in inflight : h.live
    /\ route' = "select"
    /\ UnmountQuizPage
    /\ inflight' = Stale(inflight)
    /\ UNCHANGED <<fetches, lastLog, pushes, alerts, storage, resultsPageVars>>
    /\ UNCHANGED <<parseVars, buildVars, logVars, gridVars, fetchVars>>

----------------------------------------------------------------------------
(* src/app/quiz/results/page.tsx: ResultsPage *)

\* The shape check of the effect fails (it throws "Invalid results format").
ShapeCheckFails(d) ==
    \/ TypeOf(d.score) # "number"
    \/ TypeOf(d.totalQuestions) # "number"
    \/ TypeOf(d.userAnswers) # "object"
    \/ ~Truthy(d.difficulty)
    \/ ~IsDifficulty(d.difficulty)
    \/ ~IsArray(d.questionIds)

\* The try block of the effect throws for a stored text.
LoadThrows(text) ==
    \/ ParseThrows(text)
    \/ PropertyThrows(JsonParse(text))
    \/ ShapeCheckFails(JsonParse(text))

\* if (storedResults): null and the empty string are falsy.
HasStored(stored) == stored # None /\ stored[1].kind # "empty"

\* The address /quiz/results is opened in the browser.
OpenResultsUrl ==
    /\ route = "select"
    /\ MountResultsPage
    /\ UnmountQuizPage
    /\ inflight' = {}
    /\ UNCHANGED <<fetches, lastLog, pushes, alerts, storage>>
    /\ UNCHANGED <<parseVars, buildVars, logVars, gridVars, fetchVars>>

\* The effect of ResultsPage when it accepts the stored value: setResults.
LoadResults ==
    /\ route = "results" /\ isLoading
    /\ HasStored(storage) /\ ~LoadThrows(storage[1])
    /\ storedResults' = storage
    /\ results' = Some(JsonParse(storage[1]))
    /\ isLoading' = FALSE
    /\ UNCHANGED <<route, quizPageVars, submitVars, storage>>
    /\ UNCHANGED <<parseVars, buildVars, logVars, gridVars, fetchVars>>

\* The effect when the try block throws: removeItem and router.replace('/quiz').
LoadResultsRejects ==
    /\ route = "results" /\ isLoading
    /\ HasStored(storage) /\ LoadThrows(storage[1])
    /\ storedResults' = storage
    /\ storage' = None
    /\ route' = "select"
    /\ isLoading' = FALSE
    /\ UNCHANGED <<results, quizPageVars, submitVars>>
    /\ UNCHANGED <<parseVars, buildVars, logVars, gridVars, fetchVars>>

\* The effect when nothing is stored: router.replace('/quiz').
LoadResultsMissing ==
    /\ route = "results" /\ isLoading
    /\ ~HasStored(storage)
    /\ storedResults' = storage
    /\ route' = "select"
    /\ isLoading' = FALSE
    /\ UNCHANGED <<results, storage, quizPageVars, submitVars>>
    /\ UNCHANGED <<parseVars, buildVars, logVars, gridVars, fetchVars>>

\* allQuestionsMap.get(id): of the questions of all tiers with this id the
\* last one in the order easy, medium, hard.
AllQuestions == quizData.easy \o quizData.medium \o quizData.hard

HasQuestion(id) == \E i \in 1..Len(AllQuestions) : AllQuestions[i].id = id

QuestionById(id) ==
    LET hits == {i \in 1..Len(AllQuestions) : AllQuestions[i].id = id}
    IN  AllQuestions[CHOOSE i \in hits : \A j \in hits : j <= i]

\* questionsInQuiz
RECURSIVE LookupAll(_)
LookupAll(ids) ==
    IF ids = <<>> THEN <<>>
    ELSE (IF HasQuestion(Head(ids)) THEN <<QuestionById(Head(ids))>> ELSE <<>>)
         \o LookupAll(Tail(ids))

QuestionsInQuiz(res) ==
    IF res = None \/ res[1].questionIds.k # "array" THEN <<>>
    ELSE LookupAll(res[1].questionIds.l)

\* What ResultsPage renders: "none" when it is not on screen, "loading",
\* "fallback" (Could not load results or questions), "review", or "crash"
\* when results.userAnswers[q.id] throws.
View ==
    IF route # "results" THEN "none"
    ELSE IF isLoading THEN "loading"
    ELSE IF results = None \/ Len(QuestionsInQuiz(results)) = 0 THEN "fallback"
    ELSE IF results[1].userAnswers.k = "null" THEN "crash"
    ELSE "review"

\* A button that goes straight back to the quiz of the reviewed tier with
\* the reviewed answers filled in.
TakeQuizAgain_ResumesQuiz ==
    /\ route = "results" /\ ~isLoading
    /\ route' = IF results = None THEN "select" ELSE "quiz"
    /\ pageDifficulty' = IF results = None THEN pageDifficulty ELSE results[1].difficulty.s
    /\ answers' = IF results = None THEN answers ELSE results[1].userAnswers.m
    /\ storedResults' = None
    /\ results' = None
    /\ UNCHANGED <<isLoading, isValidDifficulty, isSubmitting, sent, submitVars, storage>>
    /\ UNCHANGED <<parseVars, buildVars, logVars, gridVars, fetchVars>>

\* The buttons "Take Quiz Again" and "Try Quiz Again": router.push('/quiz').
TakeQuizAgain ==
    /\ route = "results" /\ ~isLoading
    /\ route' = "select"
    /\ storedResults' = None
    /\ results' = None
    /\ UNCHANGED <<isLoading, quizPageVars, submitVars, storage>>
    /\ UNCHANGED <<parseVars, buildVars, logVars, gridVars, fetchVars>>

----------------------------------------------------------------------------
(* The documents that session storage or a request body may hold *)

Numbers == (0 - 1)..MaxNumber

SomeAnswers == [x \in {"q1", "q2"} |-> "a"]

ScoreValues == {JNumber(n) : n \in Numbers} \cup {JUndefined, JNull, JString("1")}

AnswersValues ==
    {JObject(SomeAnswers), JObject(NoAnswers), JUndefined, JNull, JString("a"), JArray(<<>>)}

DifficultyValues ==
    {JString("easy"), JString("hard"), JString("expert"), JString(""), JUndefined, JNumber(1)}

QuestionIdsValues ==
    {JArray(<<"q1", "q2">>), JArray(<<>>), JArray(<<"zz">>), JNumArray,
     JUndefined, JObject(NoAnswers), JString("q1")}

\* Objects with any of these values as their five properties, and the
\* values that are no object.
Documents ==
    {Doc("object", s, t, a, d, q) :
        s \in ScoreValues, t \in ScoreValues, a \in AnswersValues,
        d \in DifficultyValues, q \in QuestionIdsValues}
    \cup {Plain(t) : t \in {"null", "number", "string", "array"}}

\* The texts: of a document, no JSON, empty.
Texts == {JsonText(d) : d \in Documents} \cup {GarbageText, EmptyText}

----------------------------------------------------------------------------
(* src/app/api/log-quiz/route.ts: POST *)

\* 3. Basic Validation: the condition of the if.
ValidationFails(d) ==
    \/ TypeOf(d.score) # "number"
    \/ TypeOf(d.totalQuestions) # "number"
    \/ ~IsDifficulty(d.difficulty)
    \/ TypeOf(d.userAnswers) # "object"
    \/ ~IsArray(d.questionIds)

\* A percentage that drops the fraction instead of rounding.
RoundedPercent_Truncated(score, totalQuestions) ==
    (100 * score) \div totalQuestions

\* Math.round((score / totalQuestions) * 100) for integers, totalQuestions > 0:
\* the nearest integer, a half rounded up.
RoundedPercent(score, totalQuestions) ==
    (200 * score + totalQuestions) \div (2 * totalQuestions)

\* dbEntry (the address of the caller left out)
DbEntry(d) ==
    [difficulty      |-> d.difficulty.s,
     score           |-> d.score.n,
     total_questions |-> d.totalQuestions.n,
     percentage      |-> IF d.totalQuestions.n > 0
                         THEN RoundedPercent(d.score.n, d.totalQuestions.n)
                         ELSE 0]

\* request.json() throws a SyntaxError: the catch block answers 400.
PostInvalidJson ==
    /\ lpc = "start"
    /\ ParseThrows(requestBody)
    /\ responseStatus' = 400
    /\ lpc' = "done"
    /\ UNCHANGED <<requestBody, dbEntry, dbError, dbRows, inserts>>
    /\ UNCHANGED <<parseVars, buildVars, quizVars, gridVars, fetchVars>>

\* A POST without the catch block: the TypeError leaves the handler and
\* no response is made.
PostBodyThrows_Escapes ==
    /\ lpc = "start"
    /\ ~ParseThrows(requestBody)
    /\ PropertyThrows(JsonParse(requestBody))
    /\ lpc' = "done"
    /\ UNCHANGED <<requestBody, dbEntry, dbError, dbRows, inserts, responseStatus>>
    /\ UNCHANGED <<parseVars, buildVars, quizVars, gridVars, fetchVars>>

\* data.score throws a TypeError: the catch block answers 500.
PostBodyThrows ==
    /\ lpc = "start"
    /\ ~ParseThrows(requestBody)
    /\ PropertyThrows(JsonParse(requestBody))
    /\ responseStatus' = 500
    /\ lpc' = "done"
    /\ UNCHANGED <<requestBody, dbEntry, dbError, dbRows, inserts>>
    /\ UNCHANGED <<parseVars, buildVars, quizVars, gridVars, fetchVars>>

\* A POST that answers 400 to a body of the wrong format after it has
\* inserted a record with the fields it could read.
PostInvalidFormat_InsertsFirst ==
    /\ lpc = "start"
    /\ ~ParseThrows(requestBody)
    /\ ~PropertyThrows(JsonParse(requestBody))
    /\ ValidationFails(JsonParse(requestBody))
    /\ inserts' = inserts + 1
    /\ dbRows' = Append(dbRows, [difficulty |-> "", score |-> 0, total_questions |-> 0, percentage |-> 0])
    /\ responseStatus' = 400
    /\ lpc' = "done"
    /\ UNCHANGED <<requestBody, dbEntry, dbError>>
    /\ UNCHANGED <<parseVars, buildVars, quizVars, gridVars, fetchVars>>

\* The validation fails: 400 'Invalid data format'.
PostInvalidFormat ==
    /\ lpc = "start"
    /\ ~ParseThrows(requestBody)
    /\ ~PropertyThrows(JsonParse(requestBody))
    /\ ValidationFails(JsonParse(requestBody))
    /\ responseStatus' = 400
    /\ lpc' = "done"
    /\ UNCHANGED <<requestBody, dbEntry, dbError, dbRows, inserts>>
    /\ UNCHANGED <<parseVars, buildVars, quizVars, gridVars, fetchVars>>

\* The validation passes: dbEntry is prepared and the insert is awaited.
PostInserts ==
    /\ lpc = "start"
    /\ ~ParseThrows(requestBody)
    /\ ~PropertyThrows(JsonParse(requestBody))
    /\ ~ValidationFails(JsonParse(requestBody))
    /\ dbEntry' = Some(DbEntry(JsonParse(requestBody)))
    /\ inserts' = inserts + 1
    /\ lpc' = "insert"
    /\ UNCHANGED <<requestBody, dbError, dbRows, responseStatus>>
    /\ UNCHANGED <<parseVars, buildVars, quizVars, gridVars, fetchVars>>

\* The awaited insert returns, with or without an error: 200 either way.
InsertReturns(error) ==
    /\ lpc = "insert"
    /\ dbError' = error
    /\ dbRows' = IF error = "null" THEN Append(dbRows, dbEntry[1]) ELSE dbRows
    /\ responseStatus' = 200
    /\ lpc' = "done"
    /\ UNCHANGED <<requestBody, dbEntry, inserts>>
    /\ UNCHANGED <<parseVars, buildVars, quizVars, gridVars, fetchVars>>

\* The awaited insert rejects: the catch block answers 500.
InsertRejects ==
    /\ lpc = "insert"
    /\ responseStatus' = 500
    /\ lpc' = "done"
    /\ UNCHANGED <<requestBody, dbEntry, dbError, dbRows, inserts>>
    /\ UNCHANGED <<parseVars, buildVars, quizVars, gridVars, fetchVars>>

----------------------------------------------------------------------------
(* src/components/book-grid-client.tsx: sortBooks and displayedBooks *)

\* year.toString() for a year that is not negative
DigitChar(d) == CHOOSE c \in Digits : DigitVal(c) = d

RECURSIVE NumberToString(_)
NumberToString(n) ==
    IF n < 10 THEN <<DigitChar(n)>>
    ELSE NumberToString(n \div 10) \o <<DigitChar(n % 10)>>

\* The order of the letters that occur in titles and authors.
CollationOrder == <<"a", "b", "e", "n", "p">>

CollationRank(c) == CHOOSE i \in 1..Len(CollationOrder) : CollationOrder[i] = Lower(c)

\* s.localeCompare(t) as -1, 0 or 1, for strings of letters of which no
\* two differ only in case: the order of the dictionary, case ignored.
RECURSIVE LocaleCompare(_, _)
LocaleCompare(s, t) ==
    IF s = <<>> /\ t = <<>> THEN 0
    ELSE IF s = <<>> THEN 0 - 1
    ELSE IF t = <<>> THEN 1
    ELSE IF CollationRank(Head(s)) < CollationRank(Head(t)) THEN 0 - 1
    ELSE IF CollationRank(Head(s)) > CollationRank(Head(t)) THEN 1
    ELSE LocaleCompare(Tail(s), Tail(t))

\* a.year && ...: undefined and 0 are falsy.
YearTruthy(book) == book.year # None /\ book.year[1] # 0

\* The comparator of year_desc (descending = TRUE) and of year_asc.
CompareByYear(a, b, descending) ==
    IF YearTruthy(a) /\ YearTruthy(b) /\ a.year[1] # b.year[1]
    THEN (IF descending THEN b.year[1] - a.year[1] ELSE a.year[1] - b.year[1])
    ELSE IF ~(YearTruthy(a) /\ YearTruthy(b)) /\ YearTruthy(a) THEN 0 - 1
    ELSE IF ~(YearTruthy(a) /\ YearTruthy(b)) /\ YearTruthy(b) THEN 1
    ELSE LocaleCompare(a.title, b.title)

\* The comparator that sortBooks hands to sort for the criteria.
Compare(a, b, criteria) ==
    CASE criteria = "title_asc"   -> LocaleCompare(a.title, b.title)
      [] criteria = "title_desc"  -> LocaleCompare(b.title, a.title)
      [] criteria = "author_asc"  -> LocaleCompare(a.author, b.author)
      [] criteria = "author_desc" -> LocaleCompare(b.author, a.author)
      [] criteria = "year_desc"   -> CompareByYear(a, b, TRUE)
      [] criteria = "year_asc"    -> CompareByYear(a, b, FALSE)

\* Array.prototype.sort is stable: x goes in front of the first element
\* that the comparator places after it.
InsertSorted(sorted, x, criteria) ==
    LET later == {i \in 1..Len(sorted) : Compare(sorted[i], x, criteria) > 0}
        at    == IF later = {} THEN Len(sorted) + 1
                 ELSE CHOOSE i \in later : \A j \in later : i <= j
    IN  SubSeq(sorted, 1, at - 1) \o <<x>> \o SubSeq(sorted, at, Len(sorted))

RECURSIVE SortFrom(_, _, _)
SortFrom(sorted, rest, criteria) ==
    IF rest = <<>> THEN sorted
    ELSE SortFrom(InsertSorted(sorted, Head(rest), criteria), Tail(rest), criteria)

sortBooks(booksToSort, criteria) == SortFrom(<<>>, booksToSort, criteria)

sortOptions ==
    {"title_asc", "title_desc", "author_asc", "author_desc", "year_desc", "year_asc"}

\* The predicate of initialBooks.filter for the lower-cased, trimmed query.
MatchesQuery(book, lowerCaseQuery) ==
    \/ Contains(ToLowerCase(book.title), lowerCaseQuery)
    \/ Contains(ToLowerCase(book.author), lowerCaseQuery)
    \/ (YearTruthy(book) /\ Contains(NumberToString(book.year[1]), lowerCaseQuery))

\* displayedBooks
DisplayedBooks(all, criteria, query) ==
    LET lowerCaseQuery == Trim(ToLowerCase(query))
        filteredBooks  == IF lowerCaseQuery # <<>>
                          THEN SelectSeq(all, LAMBDA book : MatchesQuery(book, lowerCaseQuery))
                          ELSE all
    IN  sortBooks(filteredBooks, criteria)

\* The entries of a manifest: a year that is absent, 0 (cover "0000 - .."),
\* 1990 or 2020; two titles, each with its author.
BookYears == {None, Some(0), Some(1990), Some(2020)}

BookTitles == {<<"a">>, <<"B">>}

AuthorOf(title) == IF title = <<"a">> THEN <<"P", "e">> ELSE <<"n">>

Books == {[year |-> y, title |-> t, author |-> AuthorOf(t)] : y \in BookYears, t \in BookTitles}

Manifests == UNION {[1..k -> Books] : k \in 0..MaxBooks}

\* The texts typed into the search input.
Queries ==
    {<<>>, <<"b">>, <<"B", " ">>, <<"0">>, <<"1", "9", "9">>, <<"p", "e">>}

\* setSortState(value) and the memo that follows it.
SelectSort(value) ==
    /\ sortState # value
    /\ sortState' = value
    /\ displayedBooks' = DisplayedBooks(initialBooks, value, searchQuery)
    /\ UNCHANGED <<initialBooks, searchQuery>>
    /\ UNCHANGED <<parseVars, buildVars, quizVars, logVars, fetchVars>>

\* handleSearchChange (and the button that clears the query) and the memo.
handleSearchChange(value) ==
    /\ searchQuery # value
    /\ searchQuery' = value
    /\ displayedBooks' = DisplayedBooks(initialBooks, sortState, value)
    /\ UNCHANGED <<initialBooks, sortState>>
    /\ UNCHANGED <<parseVars, buildVars, quizVars, logVars, fetchVars>>

----------------------------------------------------------------------------
(* scripts/fetch-lfs-pdfs.mjs: fetchLfsPdfs *)

\* The text of the pattern after its first character. The template literal
\* `\${extension}$` escapes the dollar, so nothing is interpolated: the
\* pattern is $ (the end of the input) followed by the characters
\* {extension} and another $.
LfsPatternText == <<"{", "e", "x", "t", "e", "n", "s", "i", "o", "n", "}">>

\* Where the pattern matches in the name: at a position that is the end of
\* the input and where the characters {extension} follow.
LfsPatternMatches(name) ==
    {i \in 1..(Len(name) + 1) :
        /\ i = Len(name) + 1
        /\ StartsWithAt(ToLowerCase(name), LfsPatternText, i)}

\* coverFilename.replace(new RegExp(`\${extension}$`, 'i'), '')
LfsBaseName(coverFilename) ==
    LET hits == LfsPatternMatches(coverFilename)
    IN  IF hits = {} THEN coverFilename
        ELSE LET i == CHOOSE j \in hits : \A k \in hits : j <= k
             IN  SubSeq(coverFilename, 1, i - 1)

PdfFilename(coverFilename) == LfsBaseName(coverFilename) \o <<".", "p", "d", "f">>

LFS_POINTER_BASE_PATH == <<"p", "u", "b", "l", "i", "c", "/", "b", "o", "o", "k", "s">>

RepoFilePath(coverFilename) == LFS_POINTER_BASE_PATH \o <<"/">> \o PdfFilename(coverFilename)

\* encodeURI on the characters of the paths: a space becomes %20.
RECURSIVE EncodeURI(_)
EncodeURI(s) ==
    IF s = <<>> THEN <<>>
    ELSE (IF Head(s) = " " THEN <<"%", "2", "0">> ELSE <<Head(s)>>) \o EncodeURI(Tail(s))

\* The documents that public/books can hold before the script runs.
LocalPdfs ==
    { {}, {TitleB \o <<".", "p", "d", "f">>},
      {TitleB \o <<".", "w", "e", "b", "p", ".", "p", "d", "f">>} }

\* What the request for a document's metadata and its download come to:
\* status 404, a response without download_url, another error of the API
\* or of fetch, a download that fails.
LfsFailures == {"404", "no download_url", "error", "download failed"}

\* The token is missing: process.exit(1).
FetchWithoutToken ==
    /\ fpc = "start"
    /\ ~hasToken
    /\ fetchExit' = Some(1)
    /\ fpc' = "done"
    /\ UNCHANGED <<hasToken, lfsCoversDir, coverFilenames, cursor, localPdfs, requested,
                   successCount, failCount, skippedCount>>
    /\ UNCHANGED <<parseVars, buildVars, quizVars, logVars, gridVars>>

\* mkdir of the output directory or readdir (other than ENOENT) fails:
\* process.exit(1).
FetchSetupFails ==
    /\ fpc = "start"
    /\ hasToken
    /\ fetchExit' = Some(1)
    /\ fpc' = "done"
    /\ UNCHANGED <<hasToken, lfsCoversDir, coverFilenames, cursor, localPdfs, requested,
                   successCount, failCount, skippedCount>>
    /\ UNCHANGED <<parseVars, buildVars, quizVars, logVars, gridVars>>

\* readdir reports ENOENT: the function returns.
FetchWithoutCovers ==
    /\ fpc = "start"
    /\ hasToken
    /\ lfsCoversDir = None
    /\ fetchExit' = Some(0)
    /\ fpc' = "done"
    /\ UNCHANGED <<hasToken, lfsCoversDir, coverFilenames, cursor, localPdfs, requested,
                   successCount, failCount, skippedCount>>
    /\ UNCHANGED <<parseVars, buildVars, quizVars, logVars, gridVars>>

\* readdir lists the covers directory.
FetchReadsCovers ==
    /\ fpc = "start"
    /\ hasToken
    /\ lfsCoversDir # None
    /\ coverFilenames' = lfsCoversDir[1]
    /\ cursor' = 1
    /\ fpc' = "loop"
    /\ UNCHANGED <<hasToken, lfsCoversDir, localPdfs, requested, fetchExit,
                   successCount, failCount, skippedCount>>
    /\ UNCHANGED <<parseVars, buildVars, quizVars, logVars, gridVars>>

\* The loop meets a file that is no cover: continue.
FetchSkipsFile ==
    /\ fpc = "loop"
    /\ cursor <= Len(coverFilenames)
    /\ ~IsCover(coverFilenames[cursor])
    /\ cursor' = cursor + 1
    /\ UNCHANGED <<hasToken, lfsCoversDir, coverFilenames, localPdfs, requested, fetchExit,
                   fpc, successCount, failCount, skippedCount>>
    /\ UNCHANGED <<parseVars, buildVars, quizVars, logVars, gridVars>>

\* fs.access finds the document in public/books: counted, not fetched.
FetchFindsLocal ==
    /\ fpc = "loop"
    /\ cursor <= Len(coverFilenames)
    /\ IsCover(coverFilenames[cursor])
    /\ PdfFilename(coverFilenames[cursor]) \in localPdfs
    /\ skippedCount' = skippedCount + 1
    /\ successCount' = successCount + 1
    /\ cursor' = cursor + 1
    /\ UNCHANGED <<hasToken, lfsCoversDir, coverFilenames, localPdfs, requested, fetchExit,
                   fpc, failCount>>
    /\ UNCHANGED <<parseVars, buildVars, quizVars, logVars, gridVars>>

\* The document is requested from the API and downloaded to public/books.
FetchDownloads ==
    /\ fpc = "loop"
    /\ cursor <= Len(coverFilenames)
    /\ IsCover(coverFilenames[cursor])
    /\ PdfFilename(coverFilenames[cursor]) \notin localPdfs
    /\ requested' = Append(requested, EncodeURI(RepoFilePath(coverFilenames[cursor])))
    /\ localPdfs' = localPdfs \cup {PdfFilename(coverFilenames[cursor])}
    /\ successCount' = successCount + 1
    /\ cursor' = cursor + 1
    /\ UNCHANGED <<hasToken, lfsCoversDir, coverFilenames, fetchExit, fpc,
                   failCount, skippedCount>>
    /\ UNCHANGED <<parseVars, buildVars, quizVars, logVars, gridVars>>

\* The document is requested and not obtained: counted as failed.
FetchFails(failure) ==
    /\ fpc = "loop"
    /\ cursor <= Len(coverFilenames)
    /\ IsCover(coverFilenames[cursor])
    /\ PdfFilename(coverFilenames[cursor]) \notin localPdfs
    /\ requested' = Append(requested, EncodeURI(RepoFilePath(coverFilenames[cursor])))
    /\ failCount' = failCount + 1
    /\ cursor' = cursor + 1
    /\ UNCHANGED <<hasToken, lfsCoversDir, coverFilenames, localPdfs, fetchExit, fpc,
                   successCount, skippedCount>>
    /\ UNCHANGED <<parseVars, buildVars, quizVars, logVars, gridVars>>

\* The loop is over: the summary is logged and the script ends.
FetchFinishes ==
    /\ fpc = "loop"
    /\ cursor > Len(coverFilenames)
    /\ fetchExit' = Some(0)
    /\ fpc' = "done"
    /\ UNCHANGED <<hasToken, lfsCoversDir, coverFilenames, cursor, localPdfs, requested,
                   successCount, failCount, skippedCount>>
    /\ UNCHANGED <<parseVars, buildVars, quizVars, logVars, gridVars>>

----------------------------------------------------------------------------
(* The state of a component that a specification leaves alone *)

ParseIdle ==
    /\ filenameWithoutExt = <<>>
    /\ parsed = Some(parseFilename(<<>>))
    /\ warned = TRUE

BuildIdle ==
    /\ coversDir = None
    /\ mappingFile = [kind |-> "missing", content |-> EmptyMap]
    /\ pdfUrlMap = EmptyMap
    /\ books = <<>>
    /\ outputFile = None
    /\ exitCode = Some(0)
    /\ bpc = "done"

QuizIdle ==
    /\ route = "select"
    /\ QuizPageUnmounted
    /\ inflight = {}
    /\ fetches = 0
    /\ lastLog = "none"
    /\ pushes = 0
    /\ alerts = 0
    /\ storage = None
    /\ storedResults = None
    /\ results = None
    /\ isLoading = FALSE

LogIdle ==
    /\ requestBody = EmptyText
    /\ lpc = "done"
    /\ dbEntry = None
    /\ dbError = "unset"
    /\ dbRows = <<>>
    /\ inserts = 0
    /\ responseStatus = 0

GridIdle ==
    /\ initialBooks = <<>>
    /\ sortState = "year_desc"
    /\ searchQuery = <<>>
    /\ displayedBooks = <<>>

FetchIdle ==
    /\ hasToken = FALSE
    /\ lfsCoversDir = None
    /\ coverFilenames = <<>>
    /\ cursor = 1
    /\ localPdfs = {}
    /\ requested = <<>>
    /\ successCount = 0
    /\ failCount = 0
    /\ skippedCount = 0
    /\ fetchExit = Some(1)
    /\ fpc = "done"

----------------------------------------------------------------------------
(* Specification of the quiz session: one browser session *)

InitQuiz ==
    /\ route = "select"
    /\ QuizPageUnmounted
    /\ inflight = {}
    /\ fetches = 0
    /\ lastLog = "none"
    /\ pushes = 0
    /\ alerts = 0
    /\ storage = None
    /\ storedResults = None
    /\ results = None
    /\ isLoading = FALSE
    /\ ParseIdle
    /\ BuildIdle
    /\ LogIdle
    /\ GridIdle
    /\ FetchIdle

NextQuiz ==
    \/ \E d \in TierKeys : handleDifficultySelect(d)
    \/ \E d \in UrlDifficulties : OpenQuizUrl(d)
    \/ ValidateDifficulty
    \/ \E q \in QuestionIds, v \in OptionIds : handleAnswerChange(q, v)
    \/ handleSubmit
    \/ \E h \in inflight, o \in FetchOutcomes : SubmitStoresAndNavigates(h, o)
    \/ \E h \in inflight, o \in FetchOutcomes : SubmitStorageFails(h, o)
    \/ ChangeDifficulty
    \/ OpenResultsUrl
    \/ LoadResults
    \/ LoadResultsMissing
    \/ TakeQuizAgain

SpecQuiz == InitQuiz /\ [][NextQuiz]_vars

----------------------------------------------------------------------------
(* Specification of the results page: a session whose storage holds any text *)

InitResults ==
    /\ route = "select"
    /\ QuizPageUnmounted
    /\ inflight = {}
    /\ fetches = 0
    /\ lastLog = "none"
    /\ pushes = 0
    /\ alerts = 0
    /\ storage \in {None} \cup {Some(t) : t \in Texts}
    /\ storedResults = None
    /\ results = None
    /\ isLoading = FALSE
    /\ ParseIdle
    /\ BuildIdle
    /\ LogIdle
    /\ GridIdle
    /\ FetchIdle

NextResults ==
    \/ OpenResultsUrl
    \/ LoadResults
    \/ LoadResultsRejects
    \/ LoadResultsMissing
    \/ TakeQuizAgain

SpecResults == InitResults /\ [][NextResults]_vars

----------------------------------------------------------------------------
(* Specification of the logging endpoint: one request with any body *)

InitLog ==
    /\ requestBody \in Texts
    /\ lpc = "start"
    /\ dbEntry = None
    /\ dbError = "unset"
    /\ dbRows = <<>>
    /\ inserts = 0
    /\ responseStatus = 0
    /\ ParseIdle
    /\ BuildIdle
    /\ QuizIdle
    /\ GridIdle
    /\ FetchIdle

NextLog ==
    \/ PostInvalidJson
    \/ PostBodyThrows
    \/ PostInvalidFormat
    \/ PostInserts
    \/ \E error \in {"null", "error"} : InsertReturns(error)
    \/ InsertRejects

SpecLog == InitLog /\ [][NextLog]_vars

----------------------------------------------------------------------------
(* Specification of the catalog grid: one page over any manifest *)

InitGrid ==
    /\ initialBooks \in Manifests
    /\ sortState = "year_desc"
    /\ searchQuery = <<>>
    /\ displayedBooks = DisplayedBooks(initialBooks, "year_desc", <<>>)
    /\ ParseIdle
    /\ BuildIdle
    /\ QuizIdle
    /\ LogIdle
    /\ FetchIdle

NextGrid ==
    \/ \E value \in sortOptions : SelectSort(value)
    \/ \E value \in Queries : handleSearchChange(value)

SpecGrid == InitGrid /\ [][NextGrid]_vars

----------------------------------------------------------------------------
(* Specification of the LFS fetch script: one run over any covers directory *)

InitFetch ==
    /\ hasToken \in BOOLEAN
    /\ lfsCoversDir \in {None} \cup {Some(l) : l \in Listings}
    /\ localPdfs \in LocalPdfs
    /\ coverFilenames = <<>>
    /\ cursor = 1
    /\ requested = <<>>
    /\ successCount = 0
    /\ failCount = 0
    /\ skippedCount = 0
    /\ fetchExit = None
    /\ fpc = "start"
    /\ ParseIdle
    /\ BuildIdle
    /\ QuizIdle
    /\ LogIdle
    /\ GridIdle

NextFetch ==
    \/ FetchWithoutToken
    \/ FetchSetupFails
    \/ FetchWithoutCovers
    \/ FetchReadsCovers
    \/ FetchSkipsFile
    \/ FetchFindsLocal
    \/ FetchDownloads
    \/ \E failure \in LfsFailures : FetchFails(failure)
    \/ FetchFinishes

SpecFetch == InitFetch /\ [][NextFetch]_vars

----------------------------------------------------------------------------
(* Specification of the build script: one run of generateBookData *)

InitBuild ==
    /\ coversDir \in {None} \cup {Some(l) : l \in Listings}
    /\ mappingFile \in MappingFiles
    /\ pdfUrlMap = EmptyMap
    /\ books = <<>>
    /\ outputFile = None
    /\ exitCode = None
    /\ bpc = "load"
    /\ ParseIdle
    /\ QuizIdle
    /\ LogIdle
    /\ GridIdle
    /\ FetchIdle

\* Step 1 with the exit that the catch block leaves commented out.
LoadMapping_ExitsOnError ==
    /\ bpc = "load"
    /\ pdfUrlMap' = IF mappingFile.kind = "object" THEN mappingFile.content ELSE EmptyMap
    /\ bpc' = IF mappingFile.kind = "object" THEN "scan" ELSE "done"
    /\ exitCode' = IF mappingFile.kind = "object" THEN exitCode ELSE Some(1)
    /\ UNCHANGED <<coversDir, mappingFile, books, outputFile>>
    /\ UNCHANGED <<parseVars, quizVars, logVars, gridVars, fetchVars>>

\* Step 1: readFile and JSON.parse of the mapping; on any error the map
\* stays empty and the script goes on.
LoadMapping ==
    /\ bpc = "load"
    /\ pdfUrlMap' = IF mappingFile.kind = "object" THEN mappingFile.content ELSE EmptyMap
    /\ bpc' = "scan"
    /\ UNCHANGED <<coversDir, mappingFile, books, outputFile, exitCode>>
    /\ UNCHANGED <<parseVars, quizVars, logVars, gridVars, fetchVars>>

\* Steps 2 to 4: readdir, filter, map, Promise.all; a missing directory or
\* a rejected promise leaves books empty.
ScanCovers ==
    /\ bpc = "scan"
    /\ books' = IF coversDir = None \/ ScanThrows(pdfUrlMap, coversDir[1])
                THEN <<>>
                ELSE BooksOf(pdfUrlMap, coversDir[1])
    /\ bpc' = "write"
    /\ UNCHANGED <<coversDir, mappingFile, pdfUrlMap, outputFile, exitCode>>
    /\ UNCHANGED <<parseVars, quizVars, logVars, gridVars, fetchVars>>

\* Step 5: mkdir and writeFile succeed; the script ends normally.
WriteManifest ==
    /\ bpc = "write"
    /\ outputFile' = Some(books)
    /\ exitCode' = Some(0)
    /\ bpc' = "done"
    /\ UNCHANGED <<coversDir, mappingFile, pdfUrlMap, books>>
    /\ UNCHANGED <<parseVars, quizVars, logVars, gridVars, fetchVars>>

\* Step 5 with a catch block that logs the failure and returns.
WriteFails_EndsNormally ==
    /\ bpc = "write"
    /\ exitCode' = Some(0)
    /\ bpc' = "done"
    /\ UNCHANGED <<coversDir, mappingFile, pdfUrlMap, books, outputFile>>
    /\ UNCHANGED <<parseVars, quizVars, logVars, gridVars, fetchVars>>

\* Step 5: mkdir or writeFile fails; process.exit(1).
WriteFails ==
    /\ bpc = "write"
    /\ exitCode' = Some(1)
    /\ bpc' = "done"
    /\ UNCHANGED <<coversDir, mappingFile, pdfUrlMap, books, outputFile>>
    /\ UNCHANGED <<parseVars, quizVars, logVars, gridVars, fetchVars>>

NextBuild == LoadMapping \/ ScanCovers \/ WriteManifest \/ WriteFails

SpecBuild == InitBuild /\ [][NextBuild]_vars

----------------------------------------------------------------------------
(* Specification of the parser: one call of parseFilename on any filename *)

InitParse ==
    /\ filenameWithoutExt \in Filenames(MaxToks)
    /\ parsed = None
    /\ warned = FALSE
    /\ BuildIdle
    /\ QuizIdle
    /\ LogIdle
    /\ GridIdle
    /\ FetchIdle

CallParseFilename ==
    /\ parsed = None
    /\ parsed' = Some(parseFilename(filenameWithoutExt))
    /\ warned' = ~ParseSucceeds(filenameWithoutExt)
    /\ UNCHANGED filenameWithoutExt
    /\ UNCHANGED <<buildVars, quizVars, logVars, gridVars, fetchVars>>

NextParse == CallParseFilename

SpecParse == InitParse /\ [][NextParse]_vars

----------------------------------------------------------------------------
(* Claims about parseFilename, checked under SpecParse *)

FourDigits(s) == Len(s) = 4 /\ \A i \in 1..4 : s[i] \in Digits

DecimalValue(s) ==
    1000 * DigitVal(s[1]) + 100 * DigitVal(s[2]) + 10 * DigitVal(s[3]) + DigitVal(s[4])

\* The readings of name as "YYYY - A - T": the positions j of the second
\* delimiter for which YYYY is four digits and A and T are non-empty,
\* trimmed, and A holds no delimiter.
Readings(name) ==
    { j \in 9..(Len(name) - 3) :
        /\ FourDigits(SubSeq(name, 1, 4))
        /\ StartsWithAt(name, Delim, 5)
        /\ StartsWithAt(name, Delim, j)
        /\ LET A == SubSeq(name, 8, j - 1)
               T == SubSeq(name, j + 3, Len(name))
           IN  /\ A # <<>> /\ Trim(A) = A /\ ~Contains(A, Delim)
               /\ T # <<>> /\ Trim(T) = T }

\* The result the claim C1 states for the reading with the delimiter at j.
ReadingResult(name, j) ==
    [year   |-> Some(DecimalValue(SubSeq(name, 1, 4))),
     author |-> SubSeq(name, 8, j - 1),
     title  |-> SubSeq(name, j + 3, Len(name))]

\* The readings whose author does not end in " -".
PlainReadings(name) ==
    { j \in Readings(name) : ~EndsWith(SubSeq(name, 8, j - 1), <<" ", "-">>) }

\* C1 as stated: for every input "YYYY - A - T" with YYYY four decimal
\* digits, A and T non-empty and trimmed, A without " - ", parseFilename
\* returns year = the value of YYYY, author = A, title = T.
C1_AsStated ==
    parsed # None =>
        \A j \in Readings(filenameWithoutExt) :
            parsed[1] = ReadingResult(filenameWithoutExt, j)

\* C1 amended: the same for every such input whose A, in addition, does
\* not end in " -" (an author "x -" moves the split one character left).
C1_ParsesYearAuthorTitle ==
    parsed # None =>
        \A j \in PlainReadings(filenameWithoutExt) :
            parsed[1] = ReadingResult(filenameWithoutExt, j)

\* C1 witness: a parsed name with a plain reading whose year has leading
\* zeros and whose title itself holds a delimiter.
C1_Witness ==
    /\ parsed # None
    /\ \E j \in PlainReadings(filenameWithoutExt) :
        /\ parsed[1].year = Some(42)
        /\ Contains(parsed[1].title, Delim)

\* The input has the shape "<four digits> - <author> - <title>": at least
\* three segments and a first segment that is exactly four decimal digits
\* (white space around it not counted).
HasShape(name) ==
    LET parts == Split(name, Delim)
    IN  Len(parts) >= 3 /\ FourDigits(Trim(parts[1]))

\* C2 as stated (for non-empty inputs): an input without the shape
\* "<four digits> - <author> - <title>" yields year absent, author
\* "Unknown Author" and title = the input with "_" and "-" replaced by " ".
C2_AsStated ==
    (parsed # None /\ filenameWithoutExt # <<>> /\ ~HasShape(filenameWithoutExt)) =>
        parsed[1] = [year   |-> None,
                     author |-> UnknownAuthor,
                     title  |-> ReplaceUnderscoreHyphen(filenameWithoutExt)]

----------------------------------------------------------------------------
(* Claims about generateBookData, checked under SpecBuild *)

\* The listing of the covers directory, empty when it is missing.
ListingOf(dir) == IF dir = None THEN <<>> ELSE dir[1]

\* The URL under which the manifest refers to a cover file.
CoverUrl(coverFilename) ==
    PUBLIC_COVERS_URL_PATH \o <<"/">> \o EncodeURIComponent(coverFilename)

\* The cover has an allowed extension and its parsed title is a key of
\* the mapping with a non-empty URL value (a string that is not blank).
Mapped(coverFilename) ==
    LET v == LookupPdfUrl(mappingFile.content, parseFilename(BaseName(coverFilename)).title)
    IN  IsCover(coverFilename) /\ v.k = "string" /\ Trim(v.s) # <<>>

\* C3 as stated: the manifest holds exactly one entry for each allowed
\* cover whose parsed title is mapped to a non-empty URL, none for any
\* other cover, so many entries in all, and no null or empty pdfUrl.
C3_AsStated ==
    outputFile # None =>
        LET manifest == outputFile[1]
            listing  == ListingOf(coversDir)
            EntriesFor(f) == {i \in 1..Len(manifest) : manifest[i].coverImageUrl = CoverUrl(f)}
        IN  /\ \A k \in 1..Len(listing) :
                  Cardinality(EntriesFor(listing[k])) = IF Mapped(listing[k]) THEN 1 ELSE 0
            /\ Len(manifest) = Cardinality({k \in 1..Len(listing) : Mapped(listing[k])})
            /\ \A i \in 1..Len(manifest) :
                  manifest[i].pdfUrl.k = "string" /\ manifest[i].pdfUrl.s # <<>>

\* C4 as stated: no two entries of an emitted manifest have the same id.
C4_AsStated ==
    outputFile # None =>
        \A i, j \in 1..Len(outputFile[1]) :
            i # j => outputFile[1][i].id # outputFile[1][j].id

----------------------------------------------------------------------------
(* Claims about the quiz page, checked under SpecQuiz *)

\* The results that handleSubmit has computed: those of the calls that wait
\* for the logging request.
Computed == {h.data : h \in inflight}

\* The questions of a result's tier that its answers get right.
RightlyAnswered(r) ==
    {i \in 1..Len(quizData[r.difficulty]) :
        /\ quizData[r.difficulty][i].id \in DOMAIN r.userAnswers
        /\ r.userAnswers[quizData[r.difficulty][i].id]
               = quizData[r.difficulty][i].correctAnswerId}

\* C5: the score that handleSubmit computes is the number of questions of
\* the current tier whose stored answer equals the question's
\* correctAnswerId; wrong and missing answers add nothing, and
\* 0 <= score <= totalQuestions.
C5_ScoreCountsRightAnswers ==
    \A r \in Computed :
        /\ r.totalQuestions = Len(quizData[r.difficulty])
        /\ r.score = Cardinality(RightlyAnswered(r))
        /\ 0 <= r.score /\ r.score <= r.totalQuestions

\* A submission of the easy tier with one right and one wrong answer, and
\* one of the hard tier with its question unanswered.
C5_Witness ==
    /\ \E r \in Computed :
          /\ r.difficulty = "easy"
          /\ DOMAIN r.userAnswers = {"q1", "q2"}
          /\ r.userAnswers["q1"] = "a" /\ r.userAnswers["q2"] = "a"
          /\ r.score = 1 /\ r.totalQuestions = 2
    /\ \E r \in Computed :
          r.difficulty = "hard" /\ r.userAnswers = NoAnswers /\ r.score = 0

\* The call h of handleSubmit ends in this step.
Ends(h) == h \in inflight /\ \A g \in inflight' : g.id # h.id

\* The step loads a document anew, which drops the waiting calls.
DocumentLoad == route = "select" /\ route' # "select" /\ pushes' = pushes

\* C6: a call of handleSubmit whose logging request failed (a response that
\* is not 2xx, or a rejected fetch) ends with the handoff all the same: its
\* result, as computed at the submit, is written to session storage and the
\* session moves to the results page, unless the write itself fails.
C6_LoggingFailureNeverBlocks ==
    [][\A h \in inflight :
          (Ends(h) /\ ~DocumentLoad /\ lastLog' \in {"non2xx", "rejected"}) =>
              \/ /\ storage' = Some(Stringify(h.data))
                 /\ pushes' = pushes + 1
                 /\ route' = "results"
              \/ /\ alerts' = alerts + 1
                 /\ storage' = storage]_vars

\* The only logging request of the session was rejected and the results
\* page reviews the submission.
C6_Witness ==
    /\ fetches = 1 /\ lastLog = "rejected" /\ alerts = 0
    /\ View = "review"
    /\ results[1].score.n = 1

\* C7: router.push('/quiz/results') happens only in a step that has written
\* the call's result to session storage; a step that alerts about the failed
\* write does not navigate, leaves storage and the answers alone, and on the
\* page that submitted it leaves the quiz on screen with isSubmitting false.
C7_NavigatesOnlyAfterStore ==
    [][/\ pushes' # pushes =>
            \E h \in inflight :
                Ends(h) /\ storage' = Some(Stringify(h.data)) /\ route' = "results"
       /\ alerts' # alerts =>
            /\ pushes' = pushes /\ route' = route
            /\ storage' = storage /\ answers' = answers
            /\ \E h \in inflight :
                  Ends(h) /\ (h.live => route' = "quiz" /\ ~isSubmitting')]_vars

\* The write failed for the page on screen: nothing stored, no navigation,
\* the answers still selected and the form ready for another submit.
C7_Witness ==
    /\ alerts = 1 /\ pushes = 0 /\ inflight = {}
    /\ route = "quiz" /\ pageDifficulty = "easy"
    /\ answers # NoAnswers /\ ~isSubmitting
    /\ storage = None
    /\ ENABLED handleSubmit

----------------------------------------------------------------------------
(* Claims about the results page, checked under SpecResults *)

\* The value is an object; an array counts as one, null does not.
IsObject(v) == v.k \in {"object", "array", "numarray"}

\* The document has a numeric score, a numeric totalQuestions, an object
\* userAnswers, an array questionIds and a difficulty of the bank.
WellShaped(d) ==
    /\ d.t = "object"
    /\ d.score.k = "number"
    /\ d.totalQuestions.k = "number"
    /\ IsObject(d.userAnswers)
    /\ IsArray(d.questionIds)
    /\ IsDifficulty(d.difficulty)

\* What getItem returned is no value (null, or the empty string), or no
\* JSON, or a document that is not well shaped.
NotValidStored(stored) ==
    \/ ~HasStored(stored)
    \/ ParseThrows(stored[1])
    \/ ~WellShaped(JsonParse(stored[1]))

\* C8 as stated: once the effect of the results page has run on a missing
\* or invalid stored value, the session is on /quiz, results was not set,
\* no review is rendered, and an invalid value is gone from session storage.
C8_AsStated ==
    (~isLoading /\ NotValidStored(storedResults)) =>
        /\ route = "select"
        /\ results = None
        /\ View = "none"
        /\ HasStored(storedResults) => storage = None

----------------------------------------------------------------------------
(* Claims about the logging endpoint, checked under SpecLog *)

\* The body is no JSON, or a value that fails one of: score is a number,
\* totalQuestions is a number, difficulty is easy, medium or hard,
\* userAnswers is an object, questionIds is an array of strings.
InvalidBody(text) ==
    \/ ParseThrows(text)
    \/ JsonParse(text).t # "object"
    \/ JsonParse(text).score.k # "number"
    \/ JsonParse(text).totalQuestions.k # "number"
    \/ ~IsDifficulty(JsonParse(text).difficulty)
    \/ ~IsObject(JsonParse(text).userAnswers)
    \/ JsonParse(text).questionIds.k # "array"

\* C9 as stated: the response to a request with an invalid body has
\* status 400.
C9_AsStated ==
    (responseStatus # 0 /\ InvalidBody(requestBody)) => responseStatus = 400

\* C10 as stated: the response to a request whose body passed the
\* validation has status 200, whatever became of the insert.
C10_AsStated ==
    (responseStatus # 0 /\ dbEntry # None) => responseStatus = 200

\* The body passes the checks that POST makes before it inserts.
PassesValidation(text) ==
    /\ ~ParseThrows(text)
    /\ ~PropertyThrows(JsonParse(text))
    /\ ~ValidationFails(JsonParse(text))

Abs(x) == IF x < 0 THEN 0 - x ELSE x

\* The record r derived from the document d: score and total_questions
\* are those of d, and percentage is an integer nearest to
\* 100 * score / totalQuestions, or 0 when totalQuestions is 0.
DerivedFrom(r, d) ==
    /\ r.score = d.score.n
    /\ r.total_questions = d.totalQuestions.n
    /\ d.totalQuestions.n > 0 =>
          2 * Abs(100 * d.score.n - r.percentage * d.totalQuestions.n) <= d.totalQuestions.n
    /\ d.totalQuestions.n = 0 => r.percentage = 0

\* C12: the record that POST hands to insert, and every row of the table,
\* has the submitted score and totalQuestions unchanged and
\* percentage = round(100 * score / totalQuestions), 0 for totalQuestions 0.
C12_PercentageIsRounded ==
    /\ dbEntry # None => DerivedFrom(dbEntry[1], JsonParse(requestBody))
    /\ \A i \in 1..Len(dbRows) : DerivedFrom(dbRows[i], JsonParse(requestBody))

\* 2 of 3 was inserted as 67 percent.
C12_Witness ==
    /\ Len(dbRows) = 1
    /\ dbRows[1].score = 2 /\ dbRows[1].total_questions = 3
    /\ dbRows[1].percentage = 67

\* An entry has a year when the manifest gives it one, whatever its value.
HasYear(book) == book.year # None

\* b must come after a in the order that the catalog states for sorting by
\* year: entries with a year first, then by year, then by title ascending.
StatedBefore(a, b, descending) ==
    \/ HasYear(a) /\ ~HasYear(b)
    \/ /\ HasYear(a) /\ HasYear(b)
       /\ IF descending THEN a.year[1] > b.year[1] ELSE a.year[1] < b.year[1]
    \/ /\ \/ HasYear(a) /\ HasYear(b) /\ a.year[1] = b.year[1]
          \/ ~HasYear(a) /\ ~HasYear(b)
       /\ LocaleCompare(a.title, b.title) < 0

\* C13: under year_desc and year_asc the sorted list has every entry with a
\* year before every entry without one, the entries with years ordered by
\* year (descending, ascending), and entries of equal years and entries that
\* both lack a year ordered by title ascending.
C13_AsStated ==
    sortState \in {"year_desc", "year_asc"} =>
        \A i \in 1..Len(displayedBooks) : \A j \in 1..Len(displayedBooks) :
            i < j => ~StatedBefore(displayedBooks[j], displayedBooks[i],
                                   sortState = "year_desc")

\* How often the book occurs in the list.
Occurrences(list, book) == Cardinality({i \in 1..Len(list) : list[i] = book})

\* The match that the catalog states: the query, case ignored, is part of
\* the title, of the author, or of the decimal form of the year.
StatedMatch(book, query) ==
    LET q == Trim(ToLowerCase(query))
    IN  \/ q = <<>>
        \/ Contains(ToLowerCase(book.title), q)
        \/ Contains(ToLowerCase(book.author), q)
        \/ HasYear(book) /\ Contains(NumberToString(book.year[1]), q)

\* C14: the displayed list holds exactly the manifest entries whose title,
\* author or year in decimal contains the query, case ignored; every entry
\* when the query is empty; an entry with a year is found by that year's
\* digits whatever the year is.
C14_AsStated ==
    \A book \in Books :
        Occurrences(displayedBooks, book) =
            IF StatedMatch(book, searchQuery)
            THEN Occurrences(initialBooks, book) ELSE 0

----------------------------------------------------------------------------
(* Claims about the failures of generateBookData, checked under SpecBuild *)

\* The covers directory does not exist, or the mapping file is missing or
\* is not valid JSON.
MissingResource == coversDir = None \/ mappingFile.kind \in {"missing", "corrupt"}

\* C15: without the covers directory, or with a mapping file that is missing
\* or not valid JSON, the script goes on to the write step with no books,
\* the manifest it writes is the empty array and it ends with status 0; the
\* only step that ends it with another status is a failure of the write.
C15_MissingResourceIsNotFatal ==
    /\ [](MissingResource =>
            /\ bpc \in {"write", "done"} => books = <<>>
            /\ bpc = "done" /\ exitCode = Some(0) => outputFile = Some(<<>>)
            /\ outputFile # None => exitCode = Some(0))
    /\ [][MissingResource /\ exitCode' # exitCode /\ exitCode' # Some(0)
            => bpc = "write"]_vars

C15_Witness ==
    /\ mappingFile.kind = "corrupt"
    /\ coversDir # None /\ Len(coversDir[1]) = MaxCovers
    /\ bpc = "done"
    /\ outputFile = Some(<<>>)
    /\ exitCode = Some(0)

\* C16: when mkdir or writeFile fails the script ends with status 1; it
\* ends with status 0, its report of a successful write, only with the
\* manifest written.
C16_WriteFailureIsFatal ==
    bpc = "done" =>
        /\ outputFile = None => exitCode = Some(1)
        /\ exitCode = Some(0) => outputFile = Some(books)

C16_Witness ==
    /\ bpc = "done"
    /\ books # <<>>
    /\ outputFile = None
    /\ exitCode = Some(1)

----------------------------------------------------------------------------
(* Further claims about parseFilename, checked under SpecParse *)

\* The position of the second delimiter of a name that starts with four
\* characters and a delimiter: the first delimiter after that one; 0 when
\* there is none.
SecondDelimiter(name) ==
    LET hits == {j \in 8..Len(name) : StartsWithAt(name, Delim, j)}
    IN  IF hits = {} THEN 0 ELSE CHOOSE j \in hits : \A k \in hits : j <= k

\* name is "YYYY - A - T1 - ... - Tn" with n >= 2: four digits, a delimiter,
\* an author A and, after the second delimiter, a text that itself holds a
\* delimiter; A and the text are non-empty and trimmed.
HasCompoundTitle(name) ==
    LET j == SecondDelimiter(name)
    IN  /\ j > 8
        /\ FourDigits(SubSeq(name, 1, 4))
        /\ StartsWithAt(name, Delim, 5)
        /\ Trim(SubSeq(name, 8, j - 1)) = SubSeq(name, 8, j - 1)
        /\ j + 3 <= Len(name)
        /\ Trim(SubSeq(name, j + 3, Len(name))) = SubSeq(name, j + 3, Len(name))
        /\ Contains(SubSeq(name, j + 3, Len(name)), Delim)

\* C17: a title that holds " - " is kept whole: for "YYYY - A - T1 - .. - Tn"
\* the author is A and the title is everything after the second delimiter,
\* the delimiters between T1 .. Tn included.
C17_CompoundTitleIsPreserved ==
    (parsed # None /\ HasCompoundTitle(filenameWithoutExt)) =>
        LET j == SecondDelimiter(filenameWithoutExt)
        IN  /\ parsed[1].author = SubSeq(filenameWithoutExt, 8, j - 1)
            /\ parsed[1].title =
                   SubSeq(filenameWithoutExt, j + 3, Len(filenameWithoutExt))

C17_Witness ==
    /\ parsed # None
    /\ HasCompoundTitle(filenameWithoutExt)
    /\ parsed[1].author = <<"a">>
    /\ parsed[1].title = <<"a", " ", "-", " ", "a">>

\* C18: whatever the input, the title and the author of the result are not
\* empty: on the success path (no warning) an author or title that is empty
\* after trimming becomes "Unknown Author", "Untitled"; on the fallback path
\* the author is "Unknown Author" and an empty name becomes "Untitled".
C18_TitleAndAuthorNeverEmpty ==
    parsed # None =>
        LET parts == Split(filenameWithoutExt, Delim)
        IN  /\ parsed[1].title # <<>>
            /\ parsed[1].author # <<>>
            /\ ~warned /\ Trim(parts[2]) = <<>> => parsed[1].author = UnknownAuthor
            /\ ~warned /\ Trim(Join(SubSeq(parts, 3, Len(parts)), Delim)) = <<>>
                   => parsed[1].title = Untitled
            /\ warned => parsed[1].author = UnknownAuthor
            /\ warned /\ filenameWithoutExt = <<>> => parsed[1].title = Untitled

\* C18 witness: the success path with the author and the title both empty
\* after trimming.
C18_Witness ==
    /\ parsed # None
    /\ ~warned
    /\ Trim(Split(filenameWithoutExt, Delim)[2]) = <<>>
    /\ parsed[1].author = UnknownAuthor
    /\ parsed[1].title = Untitled

----------------------------------------------------------------------------
(* Further claims about the quiz page, checked under SpecQuiz *)

\* The step changes the answers of the quiz page that stays on screen.
AnswersChange == route = "quiz" /\ route' = "quiz" /\ answers' # answers

\* The step sets the answer of q to v and leaves the other answers alone.
Selects(q, v) ==
    /\ DOMAIN answers' = DOMAIN answers \cup {q}
    /\ answers'[q] = v
    /\ \A x \in DOMAIN answers \ {q} : answers'[x] = answers[x]

\* The guard of handleSubmit apart from the answers: a valid tier with
\* questions is on screen and no submission is under way (and the number of
\* submissions of the session is below its bound).
MaySubmit ==
    /\ route = "quiz"
    /\ isValidDifficulty
    /\ Len(CurrentQuestions(isValidDifficulty, pageDifficulty)) > 0
    /\ ~isSubmitting
    /\ fetches < MaxSubmits

\* C19: a selection of option v for question q stores v for q in place of
\* any earlier selection and changes no other question's answer; the same
\* selection once more changes nothing; and the submit is accepted with any
\* subset of the questions answered.
C19_SelectionTouchesOneAnswer ==
    /\ [][AnswersChange => \E q \in QuestionIds, v \in OptionIds : Selects(q, v)]_vars
    /\ [](\A q \in DOMAIN answers :
            /\ answers[q] \in OptionIds
            /\ WithAnswer(answers, q, answers[q]) = answers)
    /\ [](MaySubmit => ENABLED handleSubmit)

\* C19 witness: a submission accepted with one of the two questions of the
\* easy tier answered, the other one answered afterwards.
C19_Witness ==
    /\ \E h \in inflight :
          /\ h.data.difficulty = "easy"
          /\ DOMAIN h.data.userAnswers = {"q1"}
    /\ pageDifficulty = "easy"
    /\ DOMAIN answers = {"q1", "q2"}

\* C20: every submission lists, as questionIds, the ids of all questions of
\* its tier in the order of the question bank, answered or not, and has
\* totalQuestions = the number of questions of the tier.
C20_SubmissionListsTheWholeTier ==
    \A h \in inflight :
        LET tier == quizData[h.data.difficulty]
        IN  /\ Len(h.data.questionIds) = Len(tier)
            /\ \A i \in 1..Len(tier) : h.data.questionIds[i] = tier[i].id
            /\ h.data.totalQuestions = Len(tier)

\* C20 witness: a submission of the easy tier with its second question
\* answered and its first one not.
C20_Witness ==
    \E h \in inflight :
        /\ h.data.difficulty = "easy"
        /\ DOMAIN h.data.userAnswers = {"q2"}
        /\ h.data.questionIds = <<"q1", "q2">>
        /\ h.data.totalQuestions = 2

----------------------------------------------------------------------------
(* Further claims about POST /api/log-quiz, checked under SpecLog *)

\* C21: whatever the body and whatever the insert does, the handler ends
\* with one response of status 200, 400 or 500: it has a next step until it
\* has responded, it has responded when it is done, and a response once
\* made is not replaced.
C21_AlwaysOneResponse ==
    /\ [](lpc # "done" => responseStatus = 0 /\ ENABLED NextLog)
    /\ [](lpc = "done" => responseStatus \in {200, 400, 500})
    /\ [][responseStatus # 0 => responseStatus' = responseStatus]_vars

\* C21 witness: the handler has answered 500 to a body that is valid JSON
\* and has no properties to read.
C21_Witness ==
    /\ lpc = "done"
    /\ ~ParseThrows(requestBody)
    /\ PropertyThrows(JsonParse(requestBody))
    /\ responseStatus = 500

----------------------------------------------------------------------------
(* Further claims about the quiz session, checked under SpecQuiz *)

\* C22: the review is the end of an attempt: a step that leaves the results
\* page leads to the selection of a difficulty, and every quiz page that
\* comes on screen starts with no answer, whatever was answered before.
C22_ReviewingIsTerminal ==
    /\ [][route = "results" /\ route' # "results" => route' = "select"]_vars
    /\ [][route # "quiz" /\ route' = "quiz" =>
            route = "select" /\ answers' = NoAnswers /\ ~isSubmitting']_vars

\* C22 witness: a quiz page on screen after the review of a submission that
\* had answers, with nothing answered yet.
C22_Witness ==
    /\ route = "quiz"
    /\ pushes = 1
    /\ inflight = {}
    /\ storage # None
    /\ storage[1].value.userAnswers.m # NoAnswers
    /\ answers = NoAnswers

----------------------------------------------------------------------------
(* Further claims about generateBookData, checked under SpecBuild *)

\* The name ends, letter case ignored, with .jpg, .jpeg, .png or .webp.
HasAllowedExtension(filename) ==
    \E ext \in {<<".", "j", "p", "g">>, <<".", "j", "p", "e", "g">>,
                <<".", "p", "n", "g">>, <<".", "w", "e", "b", "p">>} :
        /\ Len(ext) <= Len(filename)
        /\ ToLowerCase(SubSeq(filename, Len(filename) - Len(ext) + 1, Len(filename))) = ext

\* What the mapping file holds for the title parsed from the file's name.
MappingValueOf(filename) ==
    LookupPdfUrl(mappingFile.content, parseFilename(BaseName(filename)).title)

\* The entries of the manifest that refer to the file.
EntriesOf(filename) ==
    {i \in 1..Len(outputFile[1]) : outputFile[1][i].coverImageUrl = CoverUrl(filename)}

\* C23: a file of the covers directory is kept if and only if its name
\* ends, letter case ignored, with an allowed extension: a file with another
\* name has no entry in the manifest and its title is not looked up in the
\* mapping (its mapping value, were it no string, would stop the scan), and a
\* file with an allowed extension and a URL in the mapping has its entry
\* when no kept file's mapping value stops the scan.
C23_KeepsAllowedExtensionsOnly ==
    outputFile # None =>
        LET listing == ListingOf(coversDir)
            kept    == {k \in 1..Len(listing) : HasAllowedExtension(listing[k])}
        IN  /\ \A k \in 1..Len(listing) :
                  k \notin kept => EntriesOf(listing[k]) = {}
            /\ (\A k \in kept : MappingValueOf(listing[k]).k \in {"undefined", "string"})
                  => \A k \in kept :
                        (/\ MappingValueOf(listing[k]).k = "string"
                         /\ Trim(MappingValueOf(listing[k]).s) # <<>>)
                            => EntriesOf(listing[k]) # {}

\* C23 witness: a manifest with the entry of a .webp cover, written from a
\* directory that also holds a .txt file whose title has a mapping value
\* that is no string.
C23_Witness ==
    /\ outputFile # None /\ coversDir # None
    /\ \E k \in 1..Len(coversDir[1]) :
          /\ EndsWith(coversDir[1][k], <<".", "t", "x", "t">>)
          /\ MappingValueOf(coversDir[1][k]).k = "number"
    /\ \E k \in 1..Len(coversDir[1]) :
          /\ EndsWith(coversDir[1][k], <<".", "w", "e", "b", "p">>)
          /\ EntriesOf(coversDir[1][k]) # {}
    /\ Len(outputFile[1]) = 1

\* C24 as stated: while a submission is in progress no further submit
\* starts a logging request, so at most one logging request is in flight at
\* any time.
C24_AsStated == Cardinality(inflight) <= 1

\* C25 as stated: whether a cover file is in the manifest, and its entry,
\* depend on the file's own name and on the mapping value of its own title
\* alone: it is there, with the entry made from its name and that value, if
\* and only if its extension is allowed and the value is a URL, whatever
\* the mapping holds for the other covers.
C25_AsStated ==
    outputFile # None =>
        LET listing == ListingOf(coversDir)
        IN  \A k \in 1..Len(listing) :
                IF /\ HasAllowedExtension(listing[k])
                   /\ MappingValueOf(listing[k]).k = "string"
                   /\ Trim(MappingValueOf(listing[k]).s) # <<>>
                THEN \E i \in EntriesOf(listing[k]) :
                        outputFile[1][i] = BookEntry(mappingFile.content, listing[k])
                ELSE EntriesOf(listing[k]) = {}

----------------------------------------------------------------------------
(* Claims about fetchLfsPdfs, checked under SpecFetch *)

\* The document that belongs to a cover: the base name that the catalog
\* builder derives from the cover, with the extension .pdf.
DocumentOf(coverFilename) == BaseName(coverFilename) \o <<".", "p", "d", "f">>

\* C26 as stated: for every cover file with an allowed extension that the
\* loop has dealt with, the document <base>.pdf, <base> being the cover's
\* name without its extension as the catalog builder derives it, has been
\* requested from the repository, unless it was already in public/books,
\* and no document of another name has been requested or saved.
C26_AsStated ==
    LET documents == {DocumentOf(coverFilenames[k]) :
                         k \in {j \in 1..Len(coverFilenames) :
                                   HasAllowedExtension(coverFilenames[j])}}
    IN  /\ \A k \in 1..(cursor - 1) :
              (k <= Len(coverFilenames) /\ HasAllowedExtension(coverFilenames[k])) =>
                  \/ DocumentOf(coverFilenames[k]) \in localPdfs
                  \/ \E i \in 1..Len(requested) :
                        requested[i] = EncodeURI(LFS_POINTER_BASE_PATH \o <<"/">>
                                                 \o DocumentOf(coverFilenames[k]))
        /\ \A i \in 1..Len(requested) :
              \E d \in documents :
                  requested[i] = EncodeURI(LFS_POINTER_BASE_PATH \o <<"/">> \o d)

\* C27 as stated: when a submission is handed over to the results page by
\* the quiz page on screen, that page has sent exactly one logging request
\* for it, also when a failed write to session storage made the user
\* submit again.
C27_AsStated ==
    [][(\E h \in inflight : h.live /\ Ends(h) /\ route' = "results") => sent = 1]_vars

----------------------------------------------------------------------------
(* Claims about the review screen, checked under SpecQuiz *)

\* The questions of the tier with the ids, in the order of the ids.
RECURSIVE ResolveInTier(_, _)
ResolveInTier(tier, ids) ==
    IF ids = <<>> THEN <<>>
    ELSE LET hits == {i \in 1..Len(tier) : tier[i].id = Head(ids)}
         IN  (IF hits = {} THEN <<>> ELSE <<tier[CHOOSE i \in hits : TRUE]>>)
             \o ResolveInTier(tier, Tail(ids))

\* C28 as stated: the review screen shows, for the stored questionIds in
\* their order, the questions with these ids of the tier that was submitted,
\* and no question of another tier that has the same id.
C28_AsStated ==
    View = "review" =>
        QuestionsInQuiz(results)
            = ResolveInTier(quizData[results[1].difficulty.s], results[1].questionIds.l)

\* C29: what the quiz page writes to session storage, for any tier it takes
\* as valid, passes the shape check of the results page and the validation
\* of the logging endpoint, and so do the bodies it sends to the endpoint;
\* the results page that loads it stays on screen.
C29_StoredResultIsAccepted ==
    /\ [](storage # None =>
            /\ HasStored(storage)
            /\ ~LoadThrows(storage[1])
            /\ ~ValidationFails(JsonParse(storage[1])))
    /\ [](\A h \in inflight :
            /\ ~ParseThrows(Stringify(h.data))
            /\ ~ValidationFails(JsonParse(Stringify(h.data))))
    /\ [][route = "results" /\ isLoading /\ storage # None /\ isLoading' # isLoading
            => route' = "results" /\ results' # None /\ storage' = storage]_vars

\* C29 witness: the results page has loaded the stored result of a
\* submission of the hard tier.
C29_Witness ==
    /\ route = "results" /\ ~isLoading
    /\ storage # None
    /\ results # None
    /\ results[1].difficulty.s = "hard"
    /\ results[1] = JsonParse(storage[1])

\* isCorrect of the review: results.userAnswers[q.id] === q.correctAnswerId
IsCorrect(res, q) ==
    /\ q.id \in DOMAIN res.userAnswers.m
    /\ res.userAnswers.m[q.id] = q.correctAnswerId

\* The number of questions the review marks correct.
RECURSIVE MarkedCorrect(_, _)
MarkedCorrect(res, qs) ==
    IF qs = <<>> THEN 0
    ELSE (IF IsCorrect(res, Head(qs)) THEN 1 ELSE 0) + MarkedCorrect(res, Tail(qs))

\* C30 as stated: on the review of a result the quiz page stored, the number
\* of questions marked correct is the stored score.
C30_AsStated ==
    View = "review" /\ storage # None /\ results[1] = JsonParse(storage[1]) =>
        MarkedCorrect(results[1], QuestionsInQuiz(results)) = results[1].score.n

====
